---- MODULE Spec2Model ----
(***************************************************************************)
(* Model of NGS-general/SolidDataExtractor/run_qc_pipeline.py: the Qstat   *)
(* helper, the QsubJob class and RunPipeline/UpdateRunningJobs, together   *)
(* with the Grid Engine queue they talk to.  The command-line processing   *)
(* of build_analysis_dir.py is modelled as well (ArgSpec).                 *)
(*                                                                         *)
(* The program is single-threaded.  Every step of the model is one         *)
(* external interaction of the program (a qsub, a qstat, a sleep) together *)
(* with the local computation that follows it; the scheduler moves jobs    *)
(* through the queue between any two such steps.                           *)
(*                                                                         *)
(* pc is the position of the program.  Labels:                             *)
(*   RunPipeline: rp_for, rp_update, rp_full, rp_sleep, rp_append,         *)
(*                rp_drain, rp_drain_update, rp_drain_sleep, done, raised  *)
(*   QsubJob.start: start, start_poll, start_sleep                         *)
(*   QsubJob.resubmit: resub_check, resub_term, resub_poll, resub_sleep,   *)
(*                resub_reset                                              *)
(*   a caller of one QsubJob's methods: idle                               *)
(*   the main program: main_for, main_done                                 *)
(*   build_analysis_dir: args, parsed, exit                                *)
(*                                                                         *)
(* Specifications: Spec (RunPipeline), LiveSpec (RunPipeline with          *)
(* fairness), FaultSpec (RunPipeline with a qstat that may fail), MainSpec *)
(* (the loop over the data directories), JobSpec (one QsubJob under any    *)
(* sequence of calls), StuckSpec (one QsubJob whose entry leaves the queue *)
(* only on qdel), JobLiveSpec (one QsubJob with fairness), DuoSpec (two    *)
(* RunPipeline processes), PollSpec (either program with a qstat that may  *)
(* fail), ArgSpec (build_analysis_dir reading its command line).           *)
(***************************************************************************)
EXTENDS Integers, Sequences, FiniteSets, TLC

VARIABLES
    pc,                  \* position of the program
    ret,                 \* label start() returns to
    cur,                 \* index in jobs of the QsubJob a method runs on (self)
    run_data,            \* RunPipeline argument: sequence of task tuples
    max_concurrent_jobs, \* RunPipeline argument
    working_dir,         \* RunPipeline argument: "None" or a directory
    i,                   \* number of elements of run_data the for loop has taken
    running_jobs,        \* RunPipeline's list of jobs (indices into jobs)
    unfinished_jobs,     \* UpdateRunningJobs' list under construction
    k,                   \* UpdateRunningJobs' position in running_jobs
    jobs,                \* the QsubJob objects created so far
    queue,               \* the scheduler: one entry per identifier it issued
    others,              \* jobs of the user in the queue that are not in jobs
    others0,             \* value of others when the program started
    last_njobs,          \* {result of the last qstat.njobs() since the last qsub}
    submit_calls,        \* the qsub invocations made so far, in order
    last_call,           \* the QsubJob method the caller invoked last
    outcome,             \* how the last method call ended
    retval,              \* identifier returned by the last start()/resubmit()
    resubmits,           \* number of resubmit() calls made
    queried,             \* whether the program's last step ran qstat
    qdel_calls,          \* the identifiers qdel was invoked with
    id_before,           \* job_id of the job when resubmit() was last called
    qstat_ok,            \* whether qstat currently produces its listing
    data_dirs,           \* main program: the file tuples of each data directory
    d,                   \* main program: number of data directories taken
    max_total_jobs,      \* main program: value of --test (0 when not given)
    other,               \* a second RunPipeline process: its position and locals
    argv,                \* build_analysis_dir: sys.argv[1:]
    argi,                \* build_analysis_dir: index of the next argument
    expts,               \* build_analysis_dir: the list of Experiment objects
    solid_run_dir,       \* build_analysis_dir: the run directory argument
    dry_run,             \* build_analysis_dir: the --dry-run flag
    given                \* the experiment definitions the command line was built from

vars == <<pc, ret, cur, run_data, max_concurrent_jobs, working_dir, i,
          running_jobs, unfinished_jobs, k, jobs, queue, others, others0,
          last_njobs, submit_calls, last_call, outcome, retval, resubmits,
          queried, qdel_calls, id_before, qstat_ok, data_dirs, d, max_total_jobs,
          other, argv, argi, expts, solid_run_dir, dry_run, given>>

(***************************************************************************)
(* Bounds of the model.                                                    *)
(***************************************************************************)
MaxTasks == 3
MaxCeiling == 3
MaxOthers == 2
MaxResubmits == 2

\* task tuples the file discovery may supply
Args == {"a", "b"}

\* Python's None as a job identifier; identifiers the scheduler issues are >= 1
NoId == 0

\* no queue count taken yet (last_njobs holds at most one number)
NoCount == {}

\* no second RunPipeline process
NoOther == <<>>

\* Python's None as the value of a string attribute; strings are sequences of
\* characters
None == <<"None">>

\* build_analysis_dir is not the program run
NoCommandLine ==
    /\ argv = <<>>
    /\ argi = 1
    /\ expts = <<>>
    /\ solid_run_dir = None
    /\ dry_run = FALSE
    /\ given = <<>>

\* Python's None as a log file name
NoLog == <<>>

RECURSIVE SeqsUpTo(_)
SeqsUpTo(n) ==
    IF n = 0 THEN {<<>>}
    ELSE LET shorter == SeqsUpTo(n - 1)
         IN shorter \cup {Append(s, a) : s \in {t \in shorter : Len(t) = n - 1}, a \in Args}

(***************************************************************************)
(* The scheduler (Grid Engine) as the program sees it.                     *)
(*   "pending": accepted by qsub, not yet shown by qstat                   *)
(*   "queued" : shown by qstat (waiting or running)                        *)
(*   "done"   : left the queue; its output file <name>.o<id> is in the     *)
(*              directory the job ran in                                   *)
(* A job that qstat shows ends start()'s wait whether or not its output    *)
(* file exists, so the file only matters once the job has left the queue.  *)
(***************************************************************************)
Ids == 1..Len(queue)

\* the jobs of the program that are in the queue
inQueue == {id \in Ids : queue[id].state = "queued"}

\* Qstat.list: the identifiers read from qstat's output; when qstat fails or
\* prints nothing the loop over p.stdout finds no line and the list is empty
list == IF qstat_ok THEN inQueue ELSE {}

\* Qstat.njobs counting the two header lines of qstat's output as jobs
njobs_HeadersCounted ==
    Cardinality(list) + (IF qstat_ok THEN others ELSE 0) + 2

\* Qstat.njobs: len(self.list()), the user's other jobs included
njobs == Cardinality(list) + (IF qstat_ok THEN others ELSE 0)

\* Qstat.hasJob
hasJob(job_id) == job_id \in list

\* the job's output file name, self.name+'.o'+self.job_id
LogName(name, job_id) == <<name, "o", job_id>>

\* directory a submitted job runs in: qsub -cwd when working_dir is None
RunDir(dirn) == IF dirn = "None" THEN "cwd" ELSE dirn

\* os.path.exists(self.log): the name is relative, so it is looked up in the
\* program's current directory
path_exists(log) ==
    \E id \in Ids : /\ queue[id].state = "done"
                    /\ queue[id].wd = "cwd"
                    /\ log = LogName(queue[id].name, id)

\* the scheduler lists a pending job
Admit(id) ==
    /\ id \in Ids
    /\ queue[id].state = "pending"
    /\ queue' = [queue EXCEPT ![id].state = "queued"]
    /\ UNCHANGED <<pc, ret, cur, run_data, max_concurrent_jobs, working_dir, i,
                   running_jobs, unfinished_jobs, k, jobs, others, others0,
                   last_njobs, submit_calls, last_call, outcome, retval, resubmits,
                   queried, qdel_calls, id_before, qstat_ok, data_dirs, d, max_total_jobs,
                   other, argv, argi, expts, solid_run_dir, dry_run, given>>

\* a job runs to its end and leaves the queue
Finish(id) ==
    /\ id \in Ids
    /\ queue[id].state = "queued"
    /\ queue' = [queue EXCEPT ![id].state = "done"]
    /\ UNCHANGED <<pc, ret, cur, run_data, max_concurrent_jobs, working_dir, i,
                   running_jobs, unfinished_jobs, k, jobs, others, others0,
                   last_njobs, submit_calls, last_call, outcome, retval, resubmits,
                   queried, qdel_calls, id_before, qstat_ok, data_dirs, d, max_total_jobs,
                   other, argv, argi, expts, solid_run_dir, dry_run, given>>

\* one of the user's other jobs leaves the queue
OtherFinish ==
    /\ others > 0
    /\ others' = others - 1
    /\ UNCHANGED <<pc, ret, cur, run_data, max_concurrent_jobs, working_dir, i,
                   running_jobs, unfinished_jobs, k, jobs, queue, others0,
                   last_njobs, submit_calls, last_call, outcome, retval, resubmits,
                   queried, qdel_calls, id_before, qstat_ok, data_dirs, d, max_total_jobs,
                   other, argv, argi, expts, solid_run_dir, dry_run, given>>

AdmitSome == \E id \in Ids : Admit(id)

FinishSome == \E id \in Ids : Finish(id)

(***************************************************************************)
(* QsubJob                                                                 *)
(***************************************************************************)
\* QsubJob.__init__
QsubJob(name, dirn, script, args) ==
    [name |-> name, working_dir |-> dirn, script |-> script, args |-> args,
     job_id |-> NoId, log |-> NoLog,
     submitted |-> FALSE, terminated |-> FALSE, finished |-> FALSE]

\* QsubJob.isRunning without its first test, "if not self.submitted"
isRunningJob_SubmittedNotTested(job) ==
    IF ~job.finished /\ ~hasJob(job.job_id)
    THEN [job EXCEPT !.finished = TRUE]
    ELSE job

\* QsubJob.isRunning asking qstat at every call of a submitted job and
\* setting finished to what it says
isRunningJob_AsksAgain(job) ==
    IF ~job.submitted THEN job
    ELSE [job EXCEPT !.finished = ~hasJob(job.job_id)]

\* QsubJob.isRunning: the object after the call
isRunningJob(job) ==
    IF ~job.submitted THEN job
    ELSE IF ~job.finished /\ ~hasJob(job.job_id)
         THEN [job EXCEPT !.finished = TRUE]
         ELSE job

\* QsubJob.isRunning: whether the call runs qstat (self.qstat.hasJob)
isRunningQueries(job) == job.submitted /\ ~job.finished

\* QsubJob.isRunning: the value returned
isRunning(job) ==
    IF ~job.submitted THEN FALSE ELSE ~isRunningJob(job).finished

\* an exception leaves the method: a caller of the job's methods sees it,
\* RunPipeline and the main program do not catch it
Raise(exc) ==
    /\ pc' = IF ret = "rp_append" THEN "raised" ELSE "idle"
    /\ ret' = ""
    /\ outcome' = exc

\* the condition of start()'s if, were it to test finished alone
StartGuard_SubmittedIgnored(job) == ~job.finished

\* the condition of start()'s if
StartGuard(job) == ~job.submitted /\ ~job.finished

\* start(): qsub printed "Your job <id> ..."
StartQsubOk ==
    /\ pc = "start"
    /\ StartGuard(jobs[cur])
    /\ LET id == Len(queue) + 1
           me == jobs[cur]
       IN /\ queue' = Append(queue, [state |-> "pending", name |-> me.name,
                                     wd |-> RunDir(me.working_dir)])
          /\ submit_calls' = Append(submit_calls, [job |-> cur, args |-> me.args])
          /\ jobs' = [jobs EXCEPT ![cur].job_id = id,
                                  ![cur].submitted = TRUE,
                                  ![cur].log = LogName(me.name, id)]
    /\ last_njobs' = NoCount
    /\ pc' = "start_poll"
    /\ queried' = FALSE
    /\ UNCHANGED <<ret, cur, run_data, max_concurrent_jobs, working_dir, i,
                   running_jobs, unfinished_jobs, k, others, others0,
                   last_call, outcome, retval, resubmits,
                   qdel_calls, id_before, qstat_ok, data_dirs, d, max_total_jobs,
                   other, argv, argi, expts, solid_run_dir, dry_run, given>>

\* start(): qsub printed no "Your job" line, QsubScript returns None and
\* self.name+'.o'+None raises TypeError after submitted was set
StartQsubFail ==
    /\ pc = "start"
    /\ StartGuard(jobs[cur])
    /\ submit_calls' = Append(submit_calls, [job |-> cur, args |-> jobs[cur].args])
    /\ jobs' = [jobs EXCEPT ![cur].job_id = NoId, ![cur].submitted = TRUE]
    /\ last_njobs' = NoCount
    /\ Raise("TypeError")
    /\ queried' = FALSE
    /\ UNCHANGED <<cur, run_data, max_concurrent_jobs, working_dir, i,
                   running_jobs, unfinished_jobs, k, queue, others, others0,
                   last_call, retval, resubmits,
                   qdel_calls, id_before, qstat_ok, data_dirs, d, max_total_jobs,
                   other, argv, argi, expts, solid_run_dir, dry_run, given>>

\* start() returns self.job_id
StartReturn ==
    /\ pc' = ret
    /\ ret' = ""
    /\ retval' = jobs[cur].job_id
    /\ outcome' = "returned"

\* start() on a job the if skips
StartSkip ==
    /\ pc = "start"
    /\ ~StartGuard(jobs[cur])
    /\ StartReturn
    /\ queried' = FALSE
    /\ UNCHANGED <<cur, run_data, max_concurrent_jobs, working_dir, i,
                   running_jobs, unfinished_jobs, k, jobs, queue, others, others0,
                   last_njobs, submit_calls, last_call, resubmits,
                   qdel_calls, id_before, qstat_ok, data_dirs, d, max_total_jobs,
                   other, argv, argi, expts, solid_run_dir, dry_run, given>>

\* start() returning after its first look, whether or not the job is listed
StartPoll_NoWait ==
    /\ pc = "start_poll"
    /\ StartReturn
    /\ queried' = TRUE
    /\ UNCHANGED <<cur, run_data, max_concurrent_jobs, working_dir, i,
                   running_jobs, unfinished_jobs, k, jobs, queue, others, others0,
                   last_njobs, submit_calls, last_call, resubmits,
                   qdel_calls, id_before, qstat_ok, data_dirs, d, max_total_jobs,
                   other, argv, argi, expts, solid_run_dir, dry_run, given>>

\* start(): the condition of the wait loop
StartPoll ==
    /\ pc = "start_poll"
    /\ IF ~hasJob(jobs[cur].job_id) /\ ~path_exists(jobs[cur].log)
       THEN /\ pc' = "start_sleep"
            /\ UNCHANGED <<ret, retval, outcome>>
       ELSE StartReturn
    /\ queried' = TRUE
    /\ UNCHANGED <<cur, run_data, max_concurrent_jobs, working_dir, i,
                   running_jobs, unfinished_jobs, k, jobs, queue, others, others0,
                   last_njobs, submit_calls, last_call, resubmits,
                   qdel_calls, id_before, qstat_ok, data_dirs, d, max_total_jobs,
                   other, argv, argi, expts, solid_run_dir, dry_run, given>>

\* start(): time.sleep(5)
StartSleep ==
    /\ pc = "start_sleep"
    /\ pc' = "start_poll"
    /\ queried' = FALSE
    /\ UNCHANGED <<ret, cur, run_data, max_concurrent_jobs, working_dir, i,
                   running_jobs, unfinished_jobs, k, jobs, queue, others, others0,
                   last_njobs, submit_calls, last_call, outcome, retval, resubmits,
                   qdel_calls, id_before, qstat_ok, data_dirs, d, max_total_jobs,
                   other, argv, argi, expts, solid_run_dir, dry_run, given>>

(***************************************************************************)
(* RunPipeline and UpdateRunningJobs                                       *)
(***************************************************************************)
\* the script RunPipeline is given and the job name it derives from it
script == "qc.sh"

job_name == "qc"

\* UpdateRunningJobs keeps every job, running or not
UnfinishedAfter_KeepAll(unf, j, running) == Append(unf, j)

\* UpdateRunningJobs: the list after looking at job j
UnfinishedAfter(unf, j, running) == IF running THEN Append(unf, j) ELSE unf

\* UpdateRunningJobs(running_jobs), one job.isRunning() per step; the result
\* is assigned to running_jobs after the last job, and the program goes on at
\* `after`
UpdateRunningJobs(after) ==
    LET j == running_jobs[k]
        unf == UnfinishedAfter(unfinished_jobs, j, isRunning(jobs[j]))
    IN /\ jobs' = [jobs EXCEPT ![j] = isRunningJob(jobs[j])]
       /\ queried' = isRunningQueries(jobs[j])
       /\ IF k < Len(running_jobs)
          THEN /\ k' = k + 1
               /\ unfinished_jobs' = unf
               /\ UNCHANGED <<pc, running_jobs>>
          ELSE /\ running_jobs' = unf
               /\ unfinished_jobs' = <<>>
               /\ k' = 1
               /\ pc' = after

\* the for loop stops one element early
MoreData_SkipLast == i + 1 < Len(run_data)

\* a for loop that takes one element more than run_data has
MoreData_OneTooMany == i <= Len(run_data)

\* for data in run_data: is there a next element
MoreData == i < Len(run_data)

\* the for loop takes its elements from the end of the list
NextData_Reversed == run_data[Len(run_data) + 1 - i]

\* for data in run_data: the element of this iteration
NextData == run_data[i]

\* for data in run_data, entering UpdateRunningJobs
RpFor ==
    /\ pc = "rp_for"
    /\ IF MoreData
       THEN /\ i' = i + 1
            /\ pc' = IF running_jobs = <<>> THEN "rp_full" ELSE "rp_update"
       ELSE /\ i' = i
            /\ pc' = "rp_drain"
    /\ queried' = FALSE
    /\ UNCHANGED <<ret, cur, run_data, max_concurrent_jobs, working_dir,
                   running_jobs, unfinished_jobs, k, jobs, queue, others, others0,
                   last_njobs, submit_calls, last_call, outcome, retval, resubmits,
                   qdel_calls, id_before, qstat_ok, data_dirs, d, max_total_jobs,
                   other, argv, argi, expts, solid_run_dir, dry_run, given>>

\* running_jobs = UpdateRunningJobs(running_jobs) in the for loop
RpUpdate ==
    /\ pc = "rp_update"
    /\ UpdateRunningJobs("rp_full")
    /\ UNCHANGED <<ret, cur, run_data, max_concurrent_jobs, working_dir, i,
                   queue, others, others0, last_njobs, submit_calls, last_call,
                   outcome, retval, resubmits,
                   qdel_calls, id_before, qstat_ok, data_dirs, d, max_total_jobs,
                   other, argv, argi, expts, solid_run_dir, dry_run, given>>

\* the queue counts as full at one job more
QueueFull_OffByOne(n) == n > max_concurrent_jobs

\* a capacity test that reads a ceiling of 0 as "no ceiling"
QueueFull_ZeroUnlimited(n) == max_concurrent_jobs > 0 /\ n >= max_concurrent_jobs

\* the condition of the "queue is full" loop
QueueFull(n) == n >= max_concurrent_jobs

\* while qstat.njobs() >= max_concurrent_jobs; when it is false the QsubJob
\* is created and its start() called
RpFull ==
    /\ pc = "rp_full"
    /\ last_njobs' = {njobs}
    /\ IF QueueFull(njobs)
       THEN /\ pc' = "rp_sleep"
            /\ UNCHANGED <<ret, cur, jobs>>
       ELSE /\ jobs' = Append(jobs, QsubJob(job_name, working_dir, script, NextData))
            /\ cur' = Len(jobs) + 1
            /\ ret' = "rp_append"
            /\ pc' = "start"
    /\ queried' = TRUE
    /\ UNCHANGED <<run_data, max_concurrent_jobs, working_dir, i,
                   running_jobs, unfinished_jobs, k, queue, others, others0,
                   submit_calls, last_call, outcome, retval, resubmits,
                   qdel_calls, id_before, qstat_ok, data_dirs, d, max_total_jobs,
                   other, argv, argi, expts, solid_run_dir, dry_run, given>>

\* time.sleep(poll_interval) in the "queue is full" loop
RpSleep ==
    /\ pc = "rp_sleep"
    /\ pc' = "rp_full"
    /\ queried' = FALSE
    /\ UNCHANGED <<ret, cur, run_data, max_concurrent_jobs, working_dir, i,
                   running_jobs, unfinished_jobs, k, jobs, queue, others, others0,
                   last_njobs, submit_calls, last_call, outcome, retval, resubmits,
                   qdel_calls, id_before, qstat_ok, data_dirs, d, max_total_jobs,
                   other, argv, argi, expts, solid_run_dir, dry_run, given>>

\* running_jobs.append(job)
RpAppend ==
    /\ pc = "rp_append"
    /\ running_jobs' = Append(running_jobs, cur)
    /\ pc' = "rp_for"
    /\ queried' = FALSE
    /\ UNCHANGED <<ret, cur, run_data, max_concurrent_jobs, working_dir, i,
                   unfinished_jobs, k, jobs, queue, others, others0,
                   last_njobs, submit_calls, last_call, outcome, retval, resubmits,
                   qdel_calls, id_before, qstat_ok, data_dirs, d, max_total_jobs,
                   other, argv, argi, expts, solid_run_dir, dry_run, given>>

\* the drain loop gives up with one job left
DrainCond_OneLeft == Len(running_jobs) > 1

\* the condition of the drain loop
DrainCond == Len(running_jobs) > 0

\* while len(running_jobs) > 0, and the return after it
RpDrain ==
    /\ pc = "rp_drain"
    /\ pc' = IF DrainCond THEN "rp_drain_update" ELSE "done"
    /\ queried' = FALSE
    /\ UNCHANGED <<ret, cur, run_data, max_concurrent_jobs, working_dir, i,
                   running_jobs, unfinished_jobs, k, jobs, queue, others, others0,
                   last_njobs, submit_calls, last_call, outcome, retval, resubmits,
                   qdel_calls, id_before, qstat_ok, data_dirs, d, max_total_jobs,
                   other, argv, argi, expts, solid_run_dir, dry_run, given>>

\* running_jobs = UpdateRunningJobs(running_jobs) in the drain loop
RpDrainUpdate ==
    /\ pc = "rp_drain_update"
    /\ UpdateRunningJobs("rp_drain_sleep")
    /\ UNCHANGED <<ret, cur, run_data, max_concurrent_jobs, working_dir, i,
                   queue, others, others0, last_njobs, submit_calls, last_call,
                   outcome, retval, resubmits,
                   qdel_calls, id_before, qstat_ok, data_dirs, d, max_total_jobs,
                   other, argv, argi, expts, solid_run_dir, dry_run, given>>

\* time.sleep(poll_interval) in the drain loop
RpDrainSleep ==
    /\ pc = "rp_drain_sleep"
    /\ pc' = "rp_drain"
    /\ queried' = FALSE
    /\ UNCHANGED <<ret, cur, run_data, max_concurrent_jobs, working_dir, i,
                   running_jobs, unfinished_jobs, k, jobs, queue, others, others0,
                   last_njobs, submit_calls, last_call, outcome, retval, resubmits,
                   qdel_calls, id_before, qstat_ok, data_dirs, d, max_total_jobs,
                   other, argv, argi, expts, solid_run_dir, dry_run, given>>

\* RunPipeline(script, run_data, working_dir, max_concurrent_jobs) is called
InitPipeline ==
    /\ pc = "rp_for"
    /\ ret = ""
    /\ cur = 1
    /\ run_data \in SeqsUpTo(MaxTasks)
    /\ max_concurrent_jobs \in 0..MaxCeiling
    /\ working_dir \in {"None", "data"}
    /\ i = 0
    /\ running_jobs = <<>>
    /\ unfinished_jobs = <<>>
    /\ k = 1
    /\ jobs = <<>>
    /\ queue = <<>>
    /\ others \in 0..MaxOthers
    /\ others0 = others
    /\ last_njobs = NoCount
    /\ submit_calls = <<>>
    /\ last_call = "none"
    /\ outcome = "none"
    /\ retval = NoId
    /\ resubmits = 0
    /\ queried = FALSE
    /\ qdel_calls = <<>>
    /\ id_before = NoId
    /\ qstat_ok = TRUE
    /\ data_dirs = <<>>
    /\ d = 0
    /\ max_total_jobs = 0
    /\ other = NoOther
    /\ NoCommandLine

\* the steps of RunPipeline when every qsub succeeds
PipelineOk ==
    \/ RpFor \/ RpUpdate \/ RpFull \/ RpSleep \/ RpAppend
    \/ RpDrain \/ RpDrainUpdate \/ RpDrainSleep
    \/ StartQsubOk \/ StartPoll \/ StartSleep

Next ==
    \/ RpFor \/ RpUpdate \/ RpFull \/ RpSleep \/ RpAppend
    \/ RpDrain \/ RpDrainUpdate \/ RpDrainSleep
    \/ StartQsubOk \/ StartQsubFail \/ StartPoll \/ StartSleep
    \/ AdmitSome \/ FinishSome \/ OtherFinish

\* RunPipeline against a scheduler that goes its own way
Spec == InitPipeline /\ [][Next]_vars

NextLive ==
    \/ RpFor \/ RpUpdate \/ RpFull \/ RpSleep \/ RpAppend
    \/ RpDrain \/ RpDrainUpdate \/ RpDrainSleep
    \/ StartQsubOk \/ StartPoll \/ StartSleep
    \/ AdmitSome \/ FinishSome \/ OtherFinish

\* RunPipeline when every qsub succeeds, the program keeps running (its sleeps
\* end), and the scheduler lists every accepted job and lets every listed job
\* leave the queue
LiveSpec ==
    /\ InitPipeline
    /\ [][NextLive]_vars
    /\ WF_vars(PipelineOk)
    /\ WF_vars(AdmitSome)
    /\ WF_vars(FinishSome)
    /\ WF_vars(OtherFinish)

(***************************************************************************)
(* RunPipeline with a qstat that may fail (scheduler unreachable, command  *)
(* error): it then writes nothing to its standard output.                  *)
(***************************************************************************)
\* qstat stops producing its listing
QstatFails ==
    /\ qstat_ok
    /\ qstat_ok' = FALSE
    /\ UNCHANGED <<pc, ret, cur, run_data, max_concurrent_jobs, working_dir, i,
                   running_jobs, unfinished_jobs, k, jobs, queue, others, others0,
                   last_njobs, submit_calls, last_call, outcome, retval, resubmits,
                   queried, qdel_calls, id_before, data_dirs, d, max_total_jobs,
                   other, argv, argi, expts, solid_run_dir, dry_run, given>>

\* qstat produces its listing again
QstatRecovers ==
    /\ ~qstat_ok
    /\ qstat_ok' = TRUE
    /\ UNCHANGED <<pc, ret, cur, run_data, max_concurrent_jobs, working_dir, i,
                   running_jobs, unfinished_jobs, k, jobs, queue, others, others0,
                   last_njobs, submit_calls, last_call, outcome, retval, resubmits,
                   queried, qdel_calls, id_before, data_dirs, d, max_total_jobs,
                   other, argv, argi, expts, solid_run_dir, dry_run, given>>

FaultNext ==
    \/ RpFor \/ RpUpdate \/ RpFull \/ RpSleep \/ RpAppend
    \/ RpDrain \/ RpDrainUpdate \/ RpDrainSleep
    \/ StartQsubOk \/ StartPoll \/ StartSleep
    \/ AdmitSome \/ FinishSome \/ OtherFinish
    \/ QstatFails \/ QstatRecovers

\* RunPipeline, every qsub succeeding, with a qstat that fails at times
FaultSpec == InitPipeline /\ [][FaultNext]_vars

(***************************************************************************)
(* The main program: RunPipeline is called for each data directory of the  *)
(* command line in turn.                                                   *)
(***************************************************************************)
MaxDirs == 2
MaxFiles == 2
MaxTest == 2

\* the file tuples GetSolidDataFiles / GetFastqFiles find in a directory
\* holding m data files
Files(m) == [n \in 1..m |-> IF n % 2 = 1 THEN "a" ELSE "b"]

\* what a data directory may hold
DirContents == {Files(m) : m \in 0..MaxFiles}

RECURSIVE DirsUpTo(_)
DirsUpTo(n) ==
    IF n = 0 THEN {<<>>}
    ELSE LET shorter == DirsUpTo(n - 1)
         IN shorter \cup {Append(s, c) : s \in {t \in shorter : Len(t) = n - 1},
                                         c \in DirContents}

\* run_data[:max_total_jobs]
Truncated(found, n) == SubSeq(found, 1, IF n < Len(found) THEN n ELSE Len(found))

\* for data_dir in data_dirs: the files are collected, a directory with none
\* is skipped, in test mode the list is cut to max_total_jobs, and RunPipeline
\* is called with working_dir=data_dir
MainFor ==
    /\ pc = "main_for"
    /\ queried' = FALSE
    /\ IF d < Len(data_dirs)
       THEN /\ d' = d + 1
            /\ LET found == data_dirs[d + 1]
               IN IF Len(found) = 0
                  THEN UNCHANGED <<pc, run_data, working_dir, i, running_jobs,
                                   unfinished_jobs, k, last_njobs>>
                  ELSE /\ run_data' = IF max_total_jobs > 0
                                      THEN Truncated(found, max_total_jobs)
                                      ELSE found
                       /\ working_dir' = "data"
                       /\ i' = 0
                       /\ running_jobs' = <<>>
                       /\ unfinished_jobs' = <<>>
                       /\ k' = 1
                       /\ last_njobs' = NoCount
                       /\ pc' = "rp_for"
       ELSE /\ pc' = "main_done"
            /\ UNCHANGED <<d, run_data, working_dir, i, running_jobs,
                           unfinished_jobs, k, last_njobs>>
    /\ UNCHANGED <<ret, cur, max_concurrent_jobs, jobs, queue, others, others0,
                   submit_calls, last_call, outcome, retval, resubmits,
                   qdel_calls, id_before, qstat_ok, data_dirs, max_total_jobs,
                   other, argv, argi, expts, solid_run_dir, dry_run, given>>

\* RunPipeline returns to the loop over the data directories
MainReturn ==
    /\ pc = "done"
    /\ pc' = "main_for"
    /\ queried' = FALSE
    /\ UNCHANGED <<ret, cur, run_data, max_concurrent_jobs, working_dir, i,
                   running_jobs, unfinished_jobs, k, jobs, queue, others, others0,
                   last_njobs, submit_calls, last_call, outcome, retval, resubmits,
                   qdel_calls, id_before, qstat_ok, data_dirs, d, max_total_jobs,
                   other, argv, argi, expts, solid_run_dir, dry_run, given>>

\* the state after the command line is read: the data directories, the
\* ceiling of --limit and the value of --test
InitMain ==
    /\ pc = "main_for"
    /\ ret = ""
    /\ cur = 1
    /\ run_data = <<>>
    /\ max_concurrent_jobs \in 1..MaxCeiling
    /\ working_dir = "None"
    /\ i = 0
    /\ running_jobs = <<>>
    /\ unfinished_jobs = <<>>
    /\ k = 1
    /\ jobs = <<>>
    /\ queue = <<>>
    /\ others = 0
    /\ others0 = 0
    /\ last_njobs = NoCount
    /\ submit_calls = <<>>
    /\ last_call = "none"
    /\ outcome = "none"
    /\ retval = NoId
    /\ resubmits = 0
    /\ queried = FALSE
    /\ qdel_calls = <<>>
    /\ id_before = NoId
    /\ qstat_ok = TRUE
    /\ data_dirs \in DirsUpTo(MaxDirs)
    /\ d = 0
    /\ max_total_jobs \in 0..MaxTest
    /\ other = NoOther
    /\ NoCommandLine

MainNext ==
    \/ MainFor \/ MainReturn
    \/ RpFor \/ RpUpdate \/ RpFull \/ RpSleep \/ RpAppend
    \/ RpDrain \/ RpDrainUpdate \/ RpDrainSleep
    \/ StartQsubOk \/ StartPoll \/ StartSleep
    \/ AdmitSome \/ FinishSome

\* the main program, every qsub succeeding
MainSpec == InitMain /\ [][MainNext]_vars

(***************************************************************************)
(* Two RunPipeline processes of the same user, each single-threaded, run   *)
(* against the same queue.  One of them is the running program of the      *)
(* variables above; the position and locals of the one that is not taking  *)
(* the next step are kept in other.  The operating system may give the     *)
(* next step to either.                                                    *)
(***************************************************************************)
MaxDuoTasks == 2
MaxDuoOtherTasks == 1
MaxDuoCeiling == 1

\* the task lists the two processes may be given; the processes are
\* interchangeable, so the longer list is given to the one that runs first
DuoData == {Files(m) : m \in 0..MaxDuoTasks}

DuoOtherData == {Files(m) : m \in 0..MaxDuoOtherTasks}

\* the position and the locals of the program taking steps
Context ==
    [pc |-> pc, ret |-> ret, cur |-> cur, run_data |-> run_data,
     working_dir |-> working_dir, i |-> i, running_jobs |-> running_jobs,
     unfinished_jobs |-> unfinished_jobs, k |-> k, last_njobs |-> last_njobs]

\* RunPipeline(script, data, working_dir=None, ...) at its first statement
Called(data) ==
    [pc |-> "rp_for", ret |-> "", cur |-> 1, run_data |-> data,
     working_dir |-> "None", i |-> 0, running_jobs |-> <<>>,
     unfinished_jobs |-> <<>>, k |-> 1, last_njobs |-> NoCount]

\* the other process takes the next steps
Switch ==
    /\ other # NoOther
    /\ other' = Context
    /\ pc' = other.pc
    /\ ret' = other.ret
    /\ cur' = other.cur
    /\ run_data' = other.run_data
    /\ working_dir' = other.working_dir
    /\ i' = other.i
    /\ running_jobs' = other.running_jobs
    /\ unfinished_jobs' = other.unfinished_jobs
    /\ k' = other.k
    /\ last_njobs' = other.last_njobs
    /\ UNCHANGED <<max_concurrent_jobs, jobs, queue, others, others0,
                   submit_calls, last_call, outcome, retval, resubmits,
                   queried, qdel_calls, id_before, qstat_ok, data_dirs, d,
                   max_total_jobs, argv, argi, expts, solid_run_dir, dry_run, given>>

\* two RunPipeline calls with the same ceiling, the queue empty
InitDuo ==
    /\ pc = "rp_for"
    /\ ret = ""
    /\ cur = 1
    /\ run_data \in DuoData
    /\ max_concurrent_jobs \in 0..MaxDuoCeiling
    /\ working_dir = "None"
    /\ i = 0
    /\ running_jobs = <<>>
    /\ unfinished_jobs = <<>>
    /\ k = 1
    /\ jobs = <<>>
    /\ queue = <<>>
    /\ others = 0
    /\ others0 = 0
    /\ last_njobs = NoCount
    /\ submit_calls = <<>>
    /\ last_call = "none"
    /\ outcome = "none"
    /\ retval = NoId
    /\ resubmits = 0
    /\ queried = FALSE
    /\ qdel_calls = <<>>
    /\ id_before = NoId
    /\ qstat_ok = TRUE
    /\ data_dirs = <<>>
    /\ d = 0
    /\ max_total_jobs = 0
    /\ \E data \in DuoOtherData : other = Called(data)
    /\ NoCommandLine

DuoNext ==
    \/ Switch
    \/ RpFor \/ RpUpdate \/ RpFull \/ RpSleep \/ RpAppend
    \/ RpDrain \/ RpDrainUpdate \/ RpDrainSleep
    \/ StartQsubOk \/ StartPoll \/ StartSleep
    \/ AdmitSome \/ FinishSome

\* two concurrent RunPipeline processes, every qsub succeeding
DuoSpec == InitDuo /\ [][DuoNext]_vars

(***************************************************************************)
(* One QsubJob and a caller that invokes its methods in any order,         *)
(* catching what they raise.                                               *)
(***************************************************************************)
\* terminate() with line 131 calling QdelJob, the function the module
\* defines; qdel of a job that is not in the queue changes nothing there
terminate_QdelJobDefined(after) ==
    /\ queried' = isRunningQueries(jobs[cur])
    /\ jobs' = [jobs EXCEPT ![cur] =
                   IF ~isRunning(jobs[cur])
                   THEN [isRunningJob(jobs[cur]) EXCEPT !.terminated = TRUE]
                   ELSE isRunningJob(jobs[cur])]
    /\ pc' = after
    /\ ret' = ret
    /\ outcome' = IF after = "idle" THEN "returned" ELSE outcome

\* QsubJob.terminate, the program going on at `after`: the name Qdeljob of
\* line 131 is not defined (the function is QdelJob), so the call raises
\* NameError before terminated is set
terminate(after) ==
    /\ queried' = isRunningQueries(jobs[cur])
    /\ jobs' = [jobs EXCEPT ![cur] = isRunningJob(jobs[cur])]
    /\ IF ~isRunning(jobs[cur])
       THEN Raise("NameError")
       ELSE /\ pc' = after
            /\ ret' = ret
            /\ outcome' = IF after = "idle" THEN "returned" ELSE outcome

\* the caller invokes job.start()
CallStart ==
    /\ pc = "idle"
    /\ last_call' = "start"
    /\ outcome' = "none"
    /\ ret' = "idle"
    /\ pc' = "start"
    /\ queried' = FALSE
    /\ UNCHANGED <<cur, run_data, max_concurrent_jobs, working_dir, i,
                   running_jobs, unfinished_jobs, k, jobs, queue, others, others0,
                   last_njobs, submit_calls, retval, resubmits,
                   qdel_calls, id_before, qstat_ok, data_dirs, d, max_total_jobs,
                   other, argv, argi, expts, solid_run_dir, dry_run, given>>

\* the caller invokes job.isRunning()
CallIsRunning ==
    /\ pc = "idle"
    /\ last_call' = "isRunning"
    /\ jobs' = [jobs EXCEPT ![cur] = isRunningJob(jobs[cur])]
    /\ outcome' = IF isRunning(jobs[cur]) THEN "True" ELSE "False"
    /\ queried' = isRunningQueries(jobs[cur])
    /\ UNCHANGED <<pc, ret, cur, run_data, max_concurrent_jobs, working_dir, i,
                   running_jobs, unfinished_jobs, k, queue, others, others0,
                   last_njobs, submit_calls, retval, resubmits,
                   qdel_calls, id_before, qstat_ok, data_dirs, d, max_total_jobs,
                   other, argv, argi, expts, solid_run_dir, dry_run, given>>

\* the caller invokes job.terminate()
CallTerminate ==
    /\ pc = "idle"
    /\ last_call' = "terminate"
    /\ terminate("idle")
    /\ UNCHANGED <<cur, run_data, max_concurrent_jobs, working_dir, i,
                   running_jobs, unfinished_jobs, k, queue, others, others0,
                   last_njobs, submit_calls, retval, resubmits,
                   qdel_calls, id_before, qstat_ok, data_dirs, d, max_total_jobs,
                   other, argv, argi, expts, solid_run_dir, dry_run, given>>

\* the caller invokes job.resubmit()
CallResubmit ==
    /\ pc = "idle"
    /\ resubmits < MaxResubmits
    /\ resubmits' = resubmits + 1
    /\ last_call' = "resubmit"
    /\ id_before' = jobs[cur].job_id
    /\ outcome' = "none"
    /\ ret' = "idle"
    /\ pc' = "resub_check"
    /\ queried' = FALSE
    /\ UNCHANGED <<cur, run_data, max_concurrent_jobs, working_dir, i,
                   running_jobs, unfinished_jobs, k, jobs, queue, others, others0,
                   last_njobs, submit_calls, retval,
                   qdel_calls, qstat_ok, data_dirs, d, max_total_jobs,
                   other, argv, argi, expts, solid_run_dir, dry_run, given>>

\* resubmit(): if self.isRunning()
ResubCheck ==
    /\ pc = "resub_check"
    /\ jobs' = [jobs EXCEPT ![cur] = isRunningJob(jobs[cur])]
    /\ pc' = IF isRunning(jobs[cur]) THEN "resub_term" ELSE "resub_reset"
    /\ queried' = isRunningQueries(jobs[cur])
    /\ UNCHANGED <<ret, cur, run_data, max_concurrent_jobs, working_dir, i,
                   running_jobs, unfinished_jobs, k, queue, others, others0,
                   last_njobs, submit_calls, last_call, outcome, retval, resubmits,
                   qdel_calls, id_before, qstat_ok, data_dirs, d, max_total_jobs,
                   other, argv, argi, expts, solid_run_dir, dry_run, given>>

\* resubmit(): self.terminate()
ResubTerm ==
    /\ pc = "resub_term"
    /\ terminate("resub_poll")
    /\ UNCHANGED <<cur, run_data, max_concurrent_jobs, working_dir, i,
                   running_jobs, unfinished_jobs, k, queue, others, others0,
                   last_njobs, submit_calls, last_call, retval, resubmits,
                   qdel_calls, id_before, qstat_ok, data_dirs, d, max_total_jobs,
                   other, argv, argi, expts, solid_run_dir, dry_run, given>>

\* resubmit() going on to the reset after one look at the queue, whatever
\* it shows
ResubPoll_NoWait ==
    /\ pc = "resub_poll"
    /\ jobs' = [jobs EXCEPT ![cur] = isRunningJob(jobs[cur])]
    /\ pc' = "resub_reset"
    /\ queried' = isRunningQueries(jobs[cur])
    /\ UNCHANGED <<ret, cur, run_data, max_concurrent_jobs, working_dir, i,
                   running_jobs, unfinished_jobs, k, queue, others, others0,
                   last_njobs, submit_calls, last_call, outcome, retval, resubmits,
                   qdel_calls, id_before, qstat_ok, data_dirs, d, max_total_jobs,
                   other, argv, argi, expts, solid_run_dir, dry_run, given>>

\* resubmit(): while self.isRunning()
ResubPoll ==
    /\ pc = "resub_poll"
    /\ jobs' = [jobs EXCEPT ![cur] = isRunningJob(jobs[cur])]
    /\ pc' = IF isRunning(jobs[cur]) THEN "resub_sleep" ELSE "resub_reset"
    /\ queried' = isRunningQueries(jobs[cur])
    /\ UNCHANGED <<ret, cur, run_data, max_concurrent_jobs, working_dir, i,
                   running_jobs, unfinished_jobs, k, queue, others, others0,
                   last_njobs, submit_calls, last_call, outcome, retval, resubmits,
                   qdel_calls, id_before, qstat_ok, data_dirs, d, max_total_jobs,
                   other, argv, argi, expts, solid_run_dir, dry_run, given>>

\* resubmit(): time.sleep(5)
ResubSleep ==
    /\ pc = "resub_sleep"
    /\ pc' = "resub_poll"
    /\ queried' = FALSE
    /\ UNCHANGED <<ret, cur, run_data, max_concurrent_jobs, working_dir, i,
                   running_jobs, unfinished_jobs, k, jobs, queue, others, others0,
                   last_njobs, submit_calls, last_call, outcome, retval, resubmits,
                   qdel_calls, id_before, qstat_ok, data_dirs, d, max_total_jobs,
                   other, argv, argi, expts, solid_run_dir, dry_run, given>>

\* resubmit() resetting submitted and terminated but not finished
ResubReset_FinishedKept ==
    /\ pc = "resub_reset"
    /\ jobs' = [jobs EXCEPT ![cur].submitted = FALSE,
                            ![cur].terminated = FALSE]
    /\ pc' = "start"
    /\ queried' = FALSE
    /\ UNCHANGED <<ret, cur, run_data, max_concurrent_jobs, working_dir, i,
                   running_jobs, unfinished_jobs, k, queue, others, others0,
                   last_njobs, submit_calls, last_call, outcome, retval, resubmits,
                   qdel_calls, id_before, qstat_ok, data_dirs, d, max_total_jobs,
                   other, argv, argi, expts, solid_run_dir, dry_run, given>>

\* resubmit(): the flags are reset (job_id and log are not) and start() called
ResubReset ==
    /\ pc = "resub_reset"
    /\ jobs' = [jobs EXCEPT ![cur].submitted = FALSE,
                            ![cur].terminated = FALSE,
                            ![cur].finished = FALSE]
    /\ pc' = "start"
    /\ queried' = FALSE
    /\ UNCHANGED <<ret, cur, run_data, max_concurrent_jobs, working_dir, i,
                   running_jobs, unfinished_jobs, k, queue, others, others0,
                   last_njobs, submit_calls, last_call, outcome, retval, resubmits,
                   qdel_calls, id_before, qstat_ok, data_dirs, d, max_total_jobs,
                   other, argv, argi, expts, solid_run_dir, dry_run, given>>

\* one QsubJob is constructed; nothing else of the user's is in the queue
InitJob ==
    /\ pc = "idle"
    /\ ret = ""
    /\ cur = 1
    /\ run_data = <<>>
    /\ max_concurrent_jobs = 0
    /\ working_dir \in {"None", "data"}
    /\ i = 0
    /\ running_jobs = <<>>
    /\ unfinished_jobs = <<>>
    /\ k = 1
    /\ \E args \in Args : jobs = <<QsubJob(job_name, working_dir, script, args)>>
    /\ queue = <<>>
    /\ others = 0
    /\ others0 = 0
    /\ last_njobs = NoCount
    /\ submit_calls = <<>>
    /\ last_call = "none"
    /\ outcome = "none"
    /\ retval = NoId
    /\ resubmits = 0
    /\ queried = FALSE
    /\ qdel_calls = <<>>
    /\ id_before = NoId
    /\ qstat_ok = TRUE
    /\ data_dirs = <<>>
    /\ d = 0
    /\ max_total_jobs = 0
    /\ other = NoOther
    /\ NoCommandLine

JobNext ==
    \/ CallStart \/ CallIsRunning \/ CallTerminate \/ CallResubmit
    \/ ResubCheck \/ ResubTerm \/ ResubPoll \/ ResubSleep \/ ResubReset
    \/ StartQsubOk \/ StartQsubFail \/ StartSkip \/ StartPoll \/ StartSleep
    \/ AdmitSome \/ FinishSome

\* a QsubJob under any sequence of calls of its methods
JobSpec == InitJob /\ [][JobNext]_vars

(***************************************************************************)
(* A QsubJob whose scheduler entry does not leave the queue by itself: the *)
(* job stays listed until the scheduler receives a qdel for it.            *)
(***************************************************************************)
MaxQdels == 2

\* the identifiers qdel was run for
Cancelled == {qdel_calls[n] : n \in 1..Len(qdel_calls)}

\* QdelJob(job_id): runs "qdel job_id"
QdelJob(job_id) == qdel_calls' = Append(qdel_calls, job_id)

\* the caller invokes the module's QdelJob for the job's identifier
CallQdelJob ==
    /\ pc = "idle"
    /\ jobs[cur].job_id # NoId
    /\ Len(qdel_calls) < MaxQdels
    /\ QdelJob(jobs[cur].job_id)
    /\ last_call' = "QdelJob"
    /\ outcome' = "returned"
    /\ queried' = FALSE
    /\ UNCHANGED <<pc, ret, cur, run_data, max_concurrent_jobs, working_dir, i,
                   running_jobs, unfinished_jobs, k, jobs, queue, others, others0,
                   last_njobs, submit_calls, retval, resubmits,
                   id_before, qstat_ok, data_dirs, d, max_total_jobs,
                   other, argv, argi, expts, solid_run_dir, dry_run, given>>

\* the scheduler removes a job it received a qdel for
Remove(id) ==
    /\ id \in Ids
    /\ id \in Cancelled
    /\ queue[id].state \in {"pending", "queued"}
    /\ queue' = [queue EXCEPT ![id].state = "done"]
    /\ UNCHANGED <<pc, ret, cur, run_data, max_concurrent_jobs, working_dir, i,
                   running_jobs, unfinished_jobs, k, jobs, others, others0,
                   last_njobs, submit_calls, last_call, outcome, retval, resubmits,
                   queried, qdel_calls, id_before, qstat_ok, data_dirs, d, max_total_jobs,
                   other, argv, argi, expts, solid_run_dir, dry_run, given>>

RemoveSome == \E id \in Ids : Remove(id)

\* the steps of start() and resubmit() once called
JobProgram ==
    \/ ResubCheck \/ ResubTerm \/ ResubPoll \/ ResubSleep \/ ResubReset
    \/ StartQsubOk \/ StartSkip \/ StartPoll \/ StartSleep

StuckNext ==
    \/ CallStart \/ CallIsRunning \/ CallTerminate \/ CallResubmit
    \/ CallQdelJob
    \/ ResubCheck \/ ResubTerm \/ ResubPoll \/ ResubSleep \/ ResubReset
    \/ StartQsubOk \/ StartSkip \/ StartPoll \/ StartSleep
    \/ AdmitSome \/ RemoveSome

\* a QsubJob with a stuck scheduler entry: every qsub succeeds, a called
\* method keeps running (its sleeps end), the scheduler lists every accepted
\* job and removes every job it received a qdel for; no job ends by itself
StuckSpec ==
    /\ InitJob
    /\ [][StuckNext]_vars
    /\ WF_vars(JobProgram)
    /\ WF_vars(AdmitSome)
    /\ WF_vars(RemoveSome)

(***************************************************************************)
(* A QsubJob whose qsubs are all accepted, with a scheduler that lists     *)
(* every accepted job and lets every listed job run to its end.            *)
(***************************************************************************)
JobLiveNext ==
    \/ CallStart \/ CallIsRunning \/ CallTerminate \/ CallResubmit
    \/ ResubCheck \/ ResubTerm \/ ResubPoll \/ ResubSleep \/ ResubReset
    \/ StartQsubOk \/ StartSkip \/ StartPoll \/ StartSleep
    \/ AdmitSome \/ FinishSome

\* a called method keeps running (its sleeps end); the scheduler keeps moving
\* jobs through the queue
JobLiveSpec ==
    /\ InitJob
    /\ [][JobLiveNext]_vars
    /\ WF_vars(JobProgram)
    /\ WF_vars(AdmitSome)
    /\ WF_vars(FinishSome)

(***************************************************************************)
(* Either program, RunPipeline or the caller of one QsubJob, polling a     *)
(* qstat that may fail: an identifier missing from one listing can be in   *)
(* the next.                                                               *)
(***************************************************************************)
InitPoll ==
    \/ InitJob
    \/ InitPipeline /\ working_dir = "None" /\ others = 0

PollNext ==
    \/ RpFor \/ RpUpdate \/ RpFull \/ RpSleep \/ RpAppend
    \/ RpDrain \/ RpDrainUpdate \/ RpDrainSleep
    \/ CallStart \/ CallIsRunning \/ CallTerminate \/ CallResubmit
    \/ ResubCheck \/ ResubTerm \/ ResubPoll \/ ResubSleep \/ ResubReset
    \/ StartQsubOk \/ StartSkip \/ StartPoll \/ StartSleep
    \/ AdmitSome \/ FinishSome
    \/ QstatFails \/ QstatRecovers

PollSpec == InitPoll /\ [][PollNext]_vars

(***************************************************************************)
(* build_analysis_dir.py: the processing of the command line.  A string is *)
(* a sequence of characters; the fixed option prefixes ("--name", ...) are *)
(* kept as one element each, none of them holding "=" or "/".              *)
(***************************************************************************)
MaxSources == 2

\* names and patterns a user may give: initials, a longer name, and a name
\* with an "=" in it
Values == {<<"P">>, <<"P", "B">>, <<"a", "=", "b">>}

\* Experiment.__init__
Experiment == [name |-> None, type |-> None, sample |-> None, library |-> None]

\* Python's truth value of a string attribute
Truthy(v) == v # None /\ v # <<>>

\* str.split(sep): the pieces between the occurrences of sep
RECURSIVE Split(_, _)
Split(s, sep) ==
    IF \A n \in 1..Len(s) : s[n] # sep
    THEN <<s>>
    ELSE LET n == CHOOSE n \in 1..Len(s) :
                      s[n] = sep /\ \A m \in 1..(n - 1) : s[m] # sep
         IN <<SubSeq(s, 1, n - 1)>> \o Split(SubSeq(s, n + 1, Len(s)), sep)

\* str.startswith
StartsWith(s, prefix) ==
    Len(s) >= Len(prefix) /\ SubSeq(s, 1, Len(prefix)) = prefix

\* arg.startswith('--')
IsOption(arg) ==
    /\ Len(arg) >= 1
    /\ arg[1] \in {"--name", "--type", "--source", "--dry-run", "--debug"}

\* the argument --<option>=<value>
Option(opt, value) == <<opt, "=">> \o value

\* the argument --source=<sample>/<library>
Source(sample, library) == Option("--source", sample \o <<"/">> \o library)

\* the processing of '--source=': a further source of an experiment that has
\* its sample appends a copy of the experiment's name and type; the sample
\* and library are then cut out of what follows the first "="
WithSource(es, arg) ==
    LET expt == es[Len(es)]
        base == IF Truthy(expt.sample)
                THEN Append(es, [Experiment EXCEPT !.name = expt.name,
                                                   !.type = expt.type])
                ELSE es
        source == Split(arg, "=")[2]
    IN IF \E n \in 1..Len(source) : source[n] = "/"
       THEN [base EXCEPT ![Len(base)].sample = Split(source, "/")[1],
                         ![Len(base)].library = Split(source, "/")[2]]
       ELSE [base EXCEPT ![Len(base)].sample = source]

\* sys.exit(1)
Exit ==
    /\ pc' = "exit"
    /\ UNCHANGED <<argi, expts, solid_run_dir, dry_run>>

\* one round of "for arg in sys.argv[1:]"
ParseArg ==
    /\ pc = "args"
    /\ argi <= Len(argv)
    /\ LET arg == argv[argi]
       IN IF solid_run_dir # None
          THEN Exit
          ELSE IF StartsWith(arg, <<"--name", "=">>)
          THEN /\ expts' = Append(expts, [Experiment EXCEPT
                                              !.name = Split(arg, "=")[2]])
               /\ argi' = argi + 1
               /\ UNCHANGED <<pc, solid_run_dir, dry_run>>
          ELSE IF StartsWith(arg, <<"--type", "=">>)
          THEN IF expts = <<>> \/ Truthy(expts[Len(expts)].type)
               THEN Exit
               ELSE /\ expts' = [expts EXCEPT
                                    ![Len(expts)].type = Split(arg, "=")[2]]
                    /\ argi' = argi + 1
                    /\ UNCHANGED <<pc, solid_run_dir, dry_run>>
          ELSE IF StartsWith(arg, <<"--source", "=">>)
          THEN IF expts = <<>>
               THEN Exit
               ELSE /\ expts' = WithSource(expts, arg)
                    /\ argi' = argi + 1
                    /\ UNCHANGED <<pc, solid_run_dir, dry_run>>
          ELSE IF arg = <<"--dry-run">>
          THEN /\ dry_run' = TRUE
               /\ argi' = argi + 1
               /\ UNCHANGED <<pc, expts, solid_run_dir>>
          ELSE IF arg = <<"--debug">>
          THEN /\ argi' = argi + 1
               /\ UNCHANGED <<pc, expts, solid_run_dir, dry_run>>
          ELSE IF ~IsOption(arg)
          THEN /\ solid_run_dir' = arg
               /\ argi' = argi + 1
               /\ UNCHANGED <<pc, expts, dry_run>>
          ELSE Exit
    /\ UNCHANGED <<ret, cur, run_data, max_concurrent_jobs, working_dir, i,
                   running_jobs, unfinished_jobs, k, jobs, queue, others, others0,
                   last_njobs, submit_calls, last_call, outcome, retval, resubmits,
                   queried, qdel_calls, id_before, qstat_ok, data_dirs, d,
                   max_total_jobs, other, argv, given>>

\* after the loop: "Check there's something to do"
CheckArgs ==
    /\ pc = "args"
    /\ argi > Len(argv)
    /\ pc' = IF ~Truthy(solid_run_dir) \/ Len(expts) = 0 THEN "exit" ELSE "parsed"
    /\ UNCHANGED <<ret, cur, run_data, max_concurrent_jobs, working_dir, i,
                   running_jobs, unfinished_jobs, k, jobs, queue, others, others0,
                   last_njobs, submit_calls, last_call, outcome, retval, resubmits,
                   queried, qdel_calls, id_before, qstat_ok, data_dirs, d,
                   max_total_jobs, other, argv, argi, expts, solid_run_dir,
                   dry_run, given>>

\* the <sample>/<library> pairs of up to n --source options
RECURSIVE SourcesUpTo(_)
SourcesUpTo(n) ==
    IF n = 0 THEN {<<>>}
    ELSE LET shorter == SourcesUpTo(n - 1)
         IN shorter \cup {Append(s, <<sa, li>>) :
                             s \in {t \in shorter : Len(t) = n - 1},
                             sa \in Values, li \in Values}

\* experiment definitions: an optional earlier group, then the group
\* --name=N [--type=T] --source=S1/L1 ... --source=Sk/Lk, k >= 1
Definitions ==
    [earlier : BOOLEAN, name : Values, type : Values \cup {None},
     sources : SourcesUpTo(MaxSources) \ {<<>>}]

\* the earlier group: --name=P --source=P/P
EarlierArgs == <<Option("--name", <<"P">>), Source(<<"P">>, <<"P">>)>>

\* the command line written for a definition, the run directory last
CommandLine(g) ==
    (IF g.earlier THEN EarlierArgs ELSE <<>>)
    \o <<Option("--name", g.name)>>
    \o (IF g.type # None THEN <<Option("--type", g.type)>> ELSE <<>>)
    \o [n \in 1..Len(g.sources) |-> Source(g.sources[n][1], g.sources[n][2])]
    \o << <<"solid0123">> >>

InitArgs ==
    /\ pc = "args"
    /\ ret = ""
    /\ cur = 1
    /\ run_data = <<>>
    /\ max_concurrent_jobs = 0
    /\ working_dir = "None"
    /\ i = 0
    /\ running_jobs = <<>>
    /\ unfinished_jobs = <<>>
    /\ k = 1
    /\ jobs = <<>>
    /\ queue = <<>>
    /\ others = 0
    /\ others0 = 0
    /\ last_njobs = NoCount
    /\ submit_calls = <<>>
    /\ last_call = "none"
    /\ outcome = "none"
    /\ retval = NoId
    /\ resubmits = 0
    /\ queried = FALSE
    /\ qdel_calls = <<>>
    /\ id_before = NoId
    /\ qstat_ok = TRUE
    /\ data_dirs = <<>>
    /\ d = 0
    /\ max_total_jobs = 0
    /\ other = NoOther
    /\ given \in Definitions
    /\ argv = CommandLine(given)
    /\ argi = 1
    /\ expts = <<>>
    /\ solid_run_dir = None
    /\ dry_run = FALSE

ArgNext == ParseArg \/ CheckArgs

\* build_analysis_dir reading its command line
ArgSpec == InitArgs /\ [][ArgNext]_vars

(***************************************************************************)
(* Properties                                                              *)
(***************************************************************************)
\* the positions at which RunPipeline queries the queue or sleeps
PollTick ==
    pc \in {"rp_update", "rp_full", "rp_sleep", "start_poll", "start_sleep",
            "rp_drain_update", "rp_drain_sleep"}

\* the positions at which UpdateRunningJobs is going through running_jobs
InUpdate == pc \in {"rp_update", "rp_drain_update"}

\* the jobs of running_jobs that qstat still lists
StillListed == {n \in 1..Len(running_jobs) : hasJob(jobs[running_jobs[n]].job_id)}

\* C1: when RunPipeline returns, every job it submitted has an identifier that
\* the scheduler no longer lists (it has left the queue), has been seen as not
\* running by UpdateRunningJobs (finished is set), and is out of running_jobs.
C1_ReturnsAfterAllLeft ==
    pc = "done" =>
        /\ running_jobs = <<>>
        /\ \A n \in 1..Len(jobs) :
              /\ jobs[n].job_id \in Ids
              /\ ~hasJob(jobs[n].job_id)
              /\ queue[jobs[n].job_id].state = "done"
              /\ jobs[n].finished

\* C1 witness: RunPipeline has returned from a run of several jobs.
C1_Witness == pc = "done" /\ Len(jobs) >= 2 /\ Len(submit_calls) >= 2

\* C2: with at most max_concurrent_jobs of the user's jobs in the queue at the
\* start and no other submitter, qstat never lists more than
\* max_concurrent_jobs jobs; and every qsub is preceded by a queue count taken
\* since the previous qsub that was below max_concurrent_jobs.
C2_QueueWithinCeiling ==
    /\ others0 <= max_concurrent_jobs => njobs <= max_concurrent_jobs
    /\ pc = "start" =>
          /\ last_njobs # NoCount
          /\ \A n \in last_njobs : n < max_concurrent_jobs

\* C2 witness: the queue is at the ceiling with the runner's own jobs and the
\* runner is waiting for room.
C2_Witness ==
    /\ pc = "rp_sleep"
    /\ max_concurrent_jobs = 2
    /\ others0 <= max_concurrent_jobs
    /\ Cardinality(list) = 2
    /\ njobs = max_concurrent_jobs

\* C3 as stated: at every poll tick running_jobs holds at most
\* max_concurrent_jobs jobs.
C3_OutstandingWithinCeiling_AsStated ==
    (max_concurrent_jobs >= 1 /\ PollTick) =>
        Len(running_jobs) <= max_concurrent_jobs

\* C3 as amended: at every poll tick the jobs of running_jobs still in the
\* queue number at most max_concurrent_jobs; running_jobs itself holds at most
\* max_concurrent_jobs jobs at every tick outside UpdateRunningJobs and at
\* most max_concurrent_jobs + 1 at the queries UpdateRunningJobs makes.
C3_OutstandingWithinCeiling ==
    (max_concurrent_jobs >= 1 /\ PollTick) =>
        /\ Cardinality(StillListed) <= max_concurrent_jobs
        /\ Len(running_jobs) <= max_concurrent_jobs + (IF InUpdate THEN 1 ELSE 0)

\* C3 witness: UpdateRunningJobs is about to query the queue for a list of
\* max_concurrent_jobs + 1 jobs, one of which left the queue during the wait.
C3_Witness ==
    /\ max_concurrent_jobs >= 1
    /\ InUpdate
    /\ Len(running_jobs) = max_concurrent_jobs + 1
    /\ Cardinality(StillListed) = max_concurrent_jobs

\* C4: the N-th qsub carries the arguments of the N-th element of run_data.
C4_SubmissionOrder ==
    \A n \in 1..Len(submit_calls) :
        /\ n <= Len(run_data)
        /\ submit_calls[n].args = run_data[n]

\* C4 witness: three tasks were submitted, not all alike, and the second job
\* left the queue while the first is still in it.
C4_Witness ==
    /\ Len(submit_calls) = 3
    /\ run_data[1] # run_data[2]
    /\ Len(queue) >= 2
    /\ queue[1].state = "queued"
    /\ queue[2].state = "done"

\* C5: no QsubJob is submitted twice and no more qsubs are made than tasks
\* taken; when RunPipeline returns, the n-th qsub was made for the n-th
\* QsubJob, built from the n-th task, and there are as many qsubs and QsubJobs
\* as tasks.
C5_EachTaskOnce ==
    /\ \A m, n \in 1..Len(submit_calls) :
          submit_calls[m].job = submit_calls[n].job => m = n
    /\ Len(submit_calls) <= i
    /\ Len(jobs) <= i
    /\ pc = "done" =>
          /\ Len(submit_calls) = Len(run_data)
          /\ Len(jobs) = Len(run_data)
          /\ \A n \in 1..Len(run_data) :
                /\ submit_calls[n].job = n
                /\ jobs[n].args = run_data[n]

\* C5 witness: RunPipeline has returned from a run with a repeated task tuple.
C5_Witness ==
    /\ pc = "done"
    /\ Len(run_data) = 3
    /\ run_data[1] = run_data[2]
    /\ jobs[1].job_id # jobs[2].job_id

\* C6: a qsub that yields no identifier does not abort RunPipeline.
C6_FailedSubmitDoesNotAbort ==
    (\E n \in 1..Len(jobs) : jobs[n].submitted /\ jobs[n].job_id = NoId) =>
        pc # "raised"

\* C7: with a ceiling of at least 1, RunPipeline eventually returns with every
\* task submitted and running_jobs empty.
C7_EventuallyReturns ==
    (max_concurrent_jobs >= 1) =>
        <>(pc = "done" /\ i = Len(run_data) /\ running_jobs = <<>>)

\* C8: between calls, the job identifier is set if and only if submitted is
\* true.
C8_IdIffSubmitted ==
    pc = "idle" => ((jobs[1].job_id # NoId) <=> jobs[1].submitted)

\* C9: finished and terminated are never both true.
C9_NotFinishedAndTerminated == ~(jobs[1].finished /\ jobs[1].terminated)

\* C9 witness: terminate() was called on a job already marked finished.
C9_Witness ==
    /\ pc = "idle"
    /\ last_call = "terminate"
    /\ jobs[1].submitted
    /\ jobs[1].finished

\* C10: start() on a job that is submitted or finished makes no qsub, leaves
\* the object and the queue as they are and returns the identifier the job
\* has; and the qsubs made for a job never number more than one plus the
\* resubmit() calls.
C10_StartNoOp ==
    /\ [](Len(submit_calls) <= 1 + resubmits)
    /\ [][(/\ pc = "start"
           /\ (jobs[cur].submitted \/ jobs[cur].finished)
           /\ pc' # "start")
          => (/\ jobs' = jobs
              /\ queue' = queue
              /\ submit_calls' = submit_calls
              /\ retval' = jobs[cur].job_id
              /\ outcome' = "returned"
              /\ pc' = ret)]_vars

\* C10 witness: start() has returned on a job that was finished before the
\* call, with the one qsub of the first start().
C10_Witness ==
    /\ pc = "idle"
    /\ last_call = "start"
    /\ outcome = "returned"
    /\ jobs[1].finished
    /\ retval = jobs[1].job_id
    /\ Len(submit_calls) = 1

\* C11: isRunning() on a job that was never started returns False, runs no
\* qstat and leaves the object, the queue and the record of qsub and qdel
\* calls as they are.
C11_IsRunningOnNewJob ==
    [][(CallIsRunning /\ ~jobs[cur].submitted)
       => (/\ outcome' = "False"
           /\ ~queried'
           /\ jobs' = jobs
           /\ queue' = queue
           /\ submit_calls' = submit_calls
           /\ qdel_calls' = qdel_calls)]_vars

\* C11 witness: isRunning() has returned False on a job no start() was made
\* for.
C11_Witness ==
    /\ pc = "idle"
    /\ last_call = "isRunning"
    /\ outcome = "False"
    /\ submit_calls = <<>>
    /\ ~jobs[1].submitted
    /\ ~jobs[1].finished

\* C12: after terminate() on a submitted job that is not running, the call has
\* returned without error, terminated is set and one qdel was made, for the
\* job's identifier; after terminate() on a running job no qdel was made and
\* terminated is not set.
C12_TerminateCancels ==
    (pc = "idle" /\ last_call = "terminate" /\ jobs[1].submitted) =>
        IF jobs[1].finished
        THEN /\ outcome = "returned"
             /\ jobs[1].terminated
             /\ qdel_calls = <<jobs[1].job_id>>
        ELSE /\ outcome = "returned"
             /\ ~jobs[1].terminated
             /\ qdel_calls = <<>>

C14_ResubmitRecoversStuck ==
    (/\ pc = "resub_term"
     /\ hasJob(jobs[cur].job_id)
     /\ jobs[cur].job_id \notin Cancelled)
    ~> (/\ pc = "idle"
        /\ last_call = "resubmit"
        /\ outcome = "returned"
        /\ id_before \in Cancelled
        /\ jobs[cur].job_id # id_before)

\* C15: a failed qstat is no information: no job has finished set while its
\* identifier is in the queue, RunPipeline does not return while a job it
\* submitted is in the queue, and no qsub is made while the queue holds
\* max_concurrent_jobs or more of the user's jobs.
C15_FailedQueryIsNoInformation ==
    /\ \A n \in 1..Len(jobs) : jobs[n].finished => jobs[n].job_id \notin inQueue
    /\ pc = "done" => \A n \in 1..Len(jobs) : jobs[n].job_id \notin inQueue
    /\ pc = "start" => Cardinality(inQueue) + others < max_concurrent_jobs

\* C16: with an empty run_data RunPipeline only tests its two loops and
\* returns: it is never at a qsub, a qstat or a sleep, builds no QsubJob, and
\* no qsub, qdel or queue count is recorded.
C16_EmptyIsNoOp ==
    (run_data = <<>>) =>
        /\ pc \in {"rp_for", "rp_drain", "done"}
        /\ ~PollTick
        /\ ~queried
        /\ jobs = <<>>
        /\ submit_calls = <<>>
        /\ qdel_calls = <<>>
        /\ last_njobs = NoCount
        /\ running_jobs = <<>>

\* C16 witness: RunPipeline has returned from an empty run_data while the
\* user has other jobs in the queue.
C16_Witness ==
    /\ run_data = <<>>
    /\ pc = "done"
    /\ others > 0

\* C17 as stated: with max_concurrent_jobs larger than the number of tasks
\* the sleep of the capacity wait is never reached.
C17_NoCapacityWait_AsStated ==
    (max_concurrent_jobs > Len(run_data)) => pc # "rp_sleep"

\* C17 as amended: with max_concurrent_jobs larger than the number of tasks
\* plus the number of the user's other jobs in the queue at the start, the
\* sleep of the capacity wait is never reached and every queue count taken by
\* the capacity test is below max_concurrent_jobs.
C17_NoCapacityWait ==
    (max_concurrent_jobs > Len(run_data) + others0) =>
        /\ pc # "rp_sleep"
        /\ \A n \in last_njobs : n < max_concurrent_jobs

\* C17 witness: a task was submitted and RunPipeline has returned, with one
\* of the user's other jobs in the queue all along and the ceiling above the
\* two together.
C17_Witness ==
    /\ pc = "done"
    /\ Len(run_data) = 1
    /\ Len(submit_calls) = 1
    /\ others0 = 1
    /\ others = 1
    /\ max_concurrent_jobs > Len(run_data) + others0
    /\ jobs[1].finished

\* C18: with max_concurrent_jobs = 0 and at least one task, no qsub is made,
\* no QsubJob is built and RunPipeline is at the first task's capacity wait
\* (or on its way into it), never past it and never at its return.
C18_ZeroCeilingNeverSubmits ==
    (max_concurrent_jobs = 0 /\ Len(run_data) >= 1) =>
        /\ submit_calls = <<>>
        /\ jobs = <<>>
        /\ queue = <<>>
        /\ i <= 1
        /\ pc \in {"rp_for", "rp_update", "rp_full", "rp_sleep"}

\* C18 witness: the capacity wait sleeps with a ceiling of 0 and nothing at
\* all in the queue.
C18_Witness ==
    /\ max_concurrent_jobs = 0
    /\ Len(run_data) >= 1
    /\ pc = "rp_sleep"
    /\ njobs = 0
    /\ last_njobs = {0}

\* C19: with --test=n, n > 0, the program as a whole makes at most n qsubs.
C19_TestLimitsTotal ==
    (max_total_jobs > 0) => Len(submit_calls) <= max_total_jobs

\* the identifiers issued for the job that the scheduler still holds
Outstanding == {id \in Ids : queue[id].state \in {"pending", "queued"}}

\* C20: at most one identifier issued for the job is held by the scheduler at
\* any time; resubmit() reaches its reset, and start() its qsub, only for a
\* job that was never submitted or whose identifier isRunning() has seen
\* absent from the listing (finished set) and which is indeed out of the
\* queue.
C20_OneSubmissionListed ==
    /\ Cardinality(Outstanding) <= 1
    /\ pc = "resub_reset" =>
          \/ ~jobs[cur].submitted /\ jobs[cur].job_id = NoId
          \/ jobs[cur].finished /\ jobs[cur].job_id \notin Outstanding
    /\ (pc = "start" /\ StartGuard(jobs[cur])) => Outstanding = {}

\* C20 witness: a second identifier was issued by resubmit() and is listed,
\* the first having left the queue.
C20_Witness ==
    /\ last_call = "resubmit"
    /\ Len(queue) = 2
    /\ queue[1].state = "done"
    /\ queue[2].state = "queued"
    /\ jobs[1].job_id = 2
    /\ id_before = 1

\* C21: once qsub has accepted the job, start() eventually returns, the
\* identifier having been listed or, for a job that left the queue before
\* the first poll, its log file having been written in the job's working
\* directory.
C21_StartReturns ==
    (pc = "start_poll" /\ jobs[cur].job_id \in Ids)
    ~> (/\ pc \notin {"start_poll", "start_sleep"}
        /\ outcome = "returned"
        /\ retval = jobs[cur].job_id)

JobsOf(lst) == {lst[n] : n \in 1..Len(lst)}

\* C23: finished is sticky.  Only the reset of resubmit() clears it;
\* isRunning() on a submitted job with finished set returns False, runs no
\* qstat and changes nothing, whatever the queue lists; UpdateRunningJobs
\* sets finished on, and does not keep, a job its qstat does not list;
\* outside UpdateRunningJobs no job of running_jobs has finished set, and a
\* job with finished set that is out of running_jobs stays out.
C23_FinishedSticky ==
    /\ [][(\E n \in 1..Len(jobs) : jobs[n].finished /\ ~jobs'[n].finished)
          => (pc = "resub_reset" /\ last_call = "resubmit")]_vars
    /\ [][(CallIsRunning /\ jobs[cur].submitted /\ jobs[cur].finished)
          => (outcome' = "False" /\ ~queried' /\ jobs' = jobs)]_vars
    /\ [][((RpUpdate \/ RpDrainUpdate) /\ ~hasJob(jobs[running_jobs[k]].job_id))
          => (/\ jobs'[running_jobs[k]].finished
              /\ running_jobs[k] \notin JobsOf(unfinished_jobs')
              /\ (~InUpdate' => running_jobs[k] \notin JobsOf(running_jobs')))]_vars
    /\ [](~InUpdate => \A n \in JobsOf(running_jobs) : ~jobs[n].finished)
    /\ [][\A n \in 1..Len(jobs) :
             (jobs[n].finished /\ n \notin JobsOf(running_jobs))
             => n \notin JobsOf(running_jobs')]_vars

\* C23 witness: isRunning() has returned False without a qstat on a job
\* marked finished whose identifier is in the queue and listed by qstat.
C23_Witness ==
    /\ pc = "idle"
    /\ last_call = "isRunning"
    /\ outcome = "False"
    /\ ~queried
    /\ jobs[1].submitted
    /\ jobs[1].finished
    /\ qstat_ok
    /\ hasJob(jobs[1].job_id)

\* the Experiment objects a definition asks for
Expected(g) ==
    (IF g.earlier
     THEN <<[name |-> <<"P">>, type |-> None, sample |-> <<"P">>, library |-> <<"P">>]>>
     ELSE <<>>)
    \o [n \in 1..Len(g.sources) |->
           [name |-> g.name, type |-> g.type,
            sample |-> g.sources[n][1], library |-> g.sources[n][2]]]

\* C24: for a command line --name=N [--type=T] --source=S1/L1 ...
\* --source=Sk/Lk the processing does not exit, and when it is over expts
\* holds, after any earlier experiment left as it was, exactly k experiments,
\* the n-th with name N, type T, sample Sn and library Ln.
C24_MultipleSources ==
    /\ pc # "exit"
    /\ pc = "parsed" => expts = Expected(given)

====
